---- MODULE Spec2Model ----
(***************************************************************************)
(* Model of the medical-emergency backend: the hospital capacity store     *)
(* (models/Hospital.js, services/hospitalService.js), the in-memory        *)
(* ambulance pool (services/ambulanceService.js) and the emergency         *)
(* lifecycle (routes/emergency.js, models/Emergency.js).                   *)
(*                                                                         *)
(* Every request handler is an async function.  Between two awaits a       *)
(* handler runs without interruption (one JavaScript thread); at an await  *)
(* on the database other handlers and timers may run.  A handler is        *)
(* therefore modelled as a sequence of atomic steps, one per stretch of    *)
(* code between database round trips.  A mongoose document is a private    *)
(* copy of the stored record; save() on an existing document writes the    *)
(* paths that were modified on the copy ($set / $push), not the whole      *)
(* record.  updateStatus and assignHospital call save() twice in a row      *)
(* (once inside addTimelineEvent, once on return); the pair is modelled as *)
(* one write of the modified paths.                                        *)
(*                                                                         *)
(* The specifications share the variables: SpecCapacity (the hospital      *)
(* service called concurrently), SpecSubmit (submissions racing for the    *)
(* ambulance pool), Spec (one emergency through submit, status updates,    *)
(* cancellation and the timers), SpecDrive (one emergency driven through   *)
(* the chain), SpecNotify (the same handlers with notifications that may   *)
(* fail), SpecPool (the ambulance service under direct calls), SpecETA     *)
(* (calculateETA over a range of inputs), SpecRank (findNearbyHospitals    *)
(* over a range of requests and stores), SpecMany (the same against a      *)
(* store of more hospitals than the query returns), SpecGeocode (the       *)
(* geocoding service over the outcomes of its two providers),              *)
(* SpecEmergencyScore and SpecCapacityScore (the two hospital scores over  *)
(* a range of hospitals) and SpecFrame (every operation that reads or      *)
(* writes a hospital).                                                     *)
(***************************************************************************)
EXTENDS Integers, Sequences, FiniteSets, TLC

VARIABLES
    hospitals,      \* the stored Hospital documents: id -> capacity record
    seeded,         \* the capacity each hospital was created with (never changes)
    hcall,          \* hospital-service calls in flight: slot -> call record
    emergencies,    \* the stored Emergency documents: id -> document
    clock,          \* per emergency, the number of new Date() values stored for it
    ambulanceUnits, \* AmbulanceService.ambulanceUnits: id -> unit record
    timers,         \* pending setTimeout callbacks of dispatchAmbulance
    sub,            \* POST /submit handlers: emergency id -> handler state
    req,            \* PATCH handlers (status, cancel, ambulance): slot -> handler state
    calc            \* the last call of a pure service function: arguments and result

hvars == <<hospitals, seeded, hcall, calc>>

evars == <<emergencies, clock, ambulanceUnits, timers, sub, req, calc>>

vars == <<hospitals, seeded, hcall, emergencies, clock, ambulanceUnits, timers, sub, req,
          calc>>

----------------------------------------------------------------------------
(* Bounds *)

MaxBeds == 2
MaxIcu == 1
MaxCalls == 2
MaxRequests == 2
MaxEtaSteps == 48

----------------------------------------------------------------------------
(* Hospital documents *)

Hospitals == {"h1", "h2"}

CapFields == {"totalBeds", "availableBeds", "icuBeds", "availableIcuBeds",
              "emergencyRooms", "availableEmergencyRooms"}

EmergencyTypes == {"cardiac", "trauma", "stroke", "respiratory", "neurological",
                   "poisoning", "burns", "childbirth", "other"}

\* capacity sub-document of the Hospital schema; every counter has min: 0
CapacityValid(c) == \A f \in CapFields : c[f] >= 0

\* hospitalSchema.pre('save'): clamp each available counter to its capacity
preSaveAvailableBeds(c) ==
    IF c.availableBeds > c.totalBeds THEN c.totalBeds ELSE c.availableBeds

preSave(c) ==
    [c EXCEPT
        !.availableBeds = preSaveAvailableBeds(c),
        !.availableIcuBeds =
            IF c.availableIcuBeds > c.icuBeds THEN c.icuBeds ELSE c.availableIcuBeds,
        !.availableEmergencyRooms =
            IF c.availableEmergencyRooms > c.emergencyRooms
            THEN c.emergencyRooms ELSE c.availableEmergencyRooms]

\* the paths mongoose marks modified: those whose value differs from the loaded one
ModifiedPaths(loaded, doc) == {f \in CapFields : doc[f] # loaded[f]}

\* document.save() of an existing document: $set of the modified paths
SaveDelta(stored, loaded, doc) ==
    [f \in CapFields |-> IF f \in ModifiedPaths(loaded, doc) THEN doc[f] ELSE stored[f]]

\* Object.assign(this.capacity, capacityData)
AssignCapacity(c, data) ==
    [f \in CapFields |-> IF f \in DOMAIN data THEN data[f] ELSE c[f]]

\* request bodies of PATCH /:id/capacity that set one counter, each up to its own
\* bound (the model leaves the emergency-room counters at their seeded values);
\* the route checks available* >= 0 only, so a capacity may arrive negative
CapacityData ==
    {d \in UNION {[{f} -> -1 .. (IF f \in {"icuBeds", "availableIcuBeds"}
                                 THEN MaxIcu ELSE MaxBeds)] :
                     f \in {"totalBeds", "availableBeds", "icuBeds",
                            "availableIcuBeds"}} :
        \A f \in DOMAIN d :
            f \in {"availableBeds", "availableIcuBeds"} => d[f] >= 0}

\* the ICU types of reserveBed
IcuTypes == {"cardiac", "stroke", "trauma"}

\* a reservation that takes an ICU bed whatever the emergency type
ReserveIcuAlways(c, emergencyType) ==
    [c EXCEPT
        !.availableBeds = c.availableBeds - 1,
        !.availableIcuBeds = IF c.availableIcuBeds > 0
                             THEN c.availableIcuBeds - 1 ELSE c.availableIcuBeds]

\* reserveBed, from findById to the save() call: the decrement on the loaded copy
ReserveOnCopy(c, emergencyType) ==
    [c EXCEPT
        !.availableBeds = c.availableBeds - 1,
        !.availableIcuBeds =
            IF emergencyType \in IcuTypes /\ c.availableIcuBeds > 0
            THEN c.availableIcuBeds - 1 ELSE c.availableIcuBeds]

\* a guard that never refuses
NeverFull(c) == FALSE

\* reserveBed's guard on the loaded copy
NoAvailableBeds(c) == c.availableBeds = 0

----------------------------------------------------------------------------
(* Hospital-service calls: reserveBed and updateHospitalCapacity *)

Calls == 1 .. MaxCalls

NoCapacity == [f \in CapFields |-> 0]

IdleCall == [pc |-> "idle", op |-> "none", h |-> "none", type |-> "none",
             loaded |-> NoCapacity, doc |-> NoCapacity, result |-> "none"]

\* a call that has returned: its copy of the document is dropped
Returned(c, result) ==
    [c EXCEPT !.pc = "done", !.loaded = NoCapacity, !.doc = NoCapacity,
              !.result = result]

\* slots are taken in order (they are interchangeable)
FreeSlot(k) ==
    /\ hcall[k].pc = "idle"
    /\ \A j \in Calls : j < k => hcall[j].pc # "idle"

\* types that exercise both branches of the ICU test
CallTypes == {"cardiac", "other"}

\* reserveBed: findById resolved, guard and decrement applied to the copy
ReserveBedLoad(k) ==
    \E h \in Hospitals, t \in CallTypes :
        /\ FreeSlot(k)
        /\ LET c == hospitals[h] IN
           IF NoAvailableBeds(c)
           THEN hcall' = [hcall EXCEPT ![k] =
                    [pc |-> "done", op |-> "reserveBed", h |-> h, type |-> t,
                     loaded |-> NoCapacity, doc |-> NoCapacity,
                     result |-> "No available beds"]]
           ELSE hcall' = [hcall EXCEPT ![k] =
                    [pc |-> "saving", op |-> "reserveBed", h |-> h, type |-> t,
                     loaded |-> c, doc |-> ReserveOnCopy(c, t), result |-> "none"]]
        /\ UNCHANGED <<hospitals, seeded>>
        /\ UNCHANGED evars

\* updateHospitalCapacity: findById resolved, Object.assign applied to the copy
UpdateCapacityLoad(k) ==
    \E h \in Hospitals, d \in CapacityData :
        /\ FreeSlot(k)
        /\ hcall' = [hcall EXCEPT ![k] =
              [pc |-> "saving", op |-> "updateCapacity", h |-> h, type |-> "none",
               loaded |-> hospitals[h], doc |-> AssignCapacity(hospitals[h], d),
               result |-> "none"]]
        /\ UNCHANGED <<hospitals, seeded>>
        /\ UNCHANGED evars

\* hospital.save(): validation, the pre-save hook, then the write
HospitalSave(k) ==
    /\ hcall[k].pc = "saving"
    /\ LET c == hcall[k] IN
       IF ~CapacityValid(c.doc)
       THEN /\ hcall' = [hcall EXCEPT ![k] = Returned(c, "ValidationError")]
            /\ UNCHANGED hospitals
       ELSE /\ hospitals' = [hospitals EXCEPT
                  ![c.h] = SaveDelta(hospitals[c.h], c.loaded, preSave(c.doc))]
            /\ hcall' = [hcall EXCEPT ![k] = Returned(c, "success")]
    /\ UNCHANGED seeded
    /\ UNCHANGED evars

----------------------------------------------------------------------------
(* Emergency documents (models/Emergency.js) *)

EmergencyIds == {"e1", "e2"}

NoEmergency == "none"
NoHospital == "none"
NoUnit == "none"

\* response.status enum, in lifecycle order, and cancelled
StatusChain == <<"submitted", "processing", "ambulance_dispatched", "en_route",
                 "arrived_at_scene", "transported", "arrived_at_hospital", "completed">>

\* the status after a status in the chain (completed and cancelled have none)
Successor(status) ==
    IF \E i \in 1 .. Len(StatusChain) - 1 : StatusChain[i] = status
    THEN StatusChain[(CHOOSE i \in 1 .. Len(StatusChain) - 1 : StatusChain[i] = status) + 1]
    ELSE status

MilestoneFields == {"dispatchTime", "arrivalTime", "transportTime",
                    "hospitalArrivalTime", "completionTime"}

\* The paths of the document the model carries are status, assignedHospital,
\* ambulanceId and the milestones; timeline is an array, the others are set as a
\* whole.  A Date that was never set is 0.

\* new Emergency({...}): status defaults to 'submitted', nothing else is set
NewEmergency ==
    [exists |-> TRUE, status |-> "submitted", timeline |-> <<>>,
     assignedHospital |-> NoHospital, ambulanceId |-> NoUnit,
     dispatchTime |-> 0, arrivalTime |-> 0, transportTime |-> 0,
     hospitalArrivalTime |-> 0, completionTime |-> 0]

NotStored == [NewEmergency EXCEPT !.exists = FALSE]

\* a handler's mongoose document: its view of the record, the timeline entries
\* pushed since the last save and the scalar paths marked modified
CopyOf(doc) == [doc |-> doc, pushed |-> <<>>, mod |-> {}]

NoCopy == CopyOf(NotStored)

\* assignment to a scalar path: marked modified when the value changes (a Date is
\* always a new value)
SetPath(copy, path, value) ==
    IF copy.doc[path] = value /\ path \notin MilestoneFields
    THEN copy
    ELSE [copy EXCEPT !.doc[path] = value, !.mod = @ \cup {path}]

\* emergencySchema.methods.addTimelineEvent, up to its save()
addTimelineEvent(copy, event, arg, details, updatedBy, now) ==
    LET entry == [timestamp |-> now, event |-> event, arg |-> arg,
                  details |-> details, updatedBy |-> updatedBy]
    IN [copy EXCEPT !.doc.timeline = Append(@, entry), !.pushed = Append(@, entry)]

\* the switch of updateStatus: the Date field a status stamps
MilestoneOf(newStatus) ==
    CASE newStatus = "ambulance_dispatched" -> "dispatchTime"
      [] newStatus = "arrived_at_scene" -> "arrivalTime"
      [] newStatus = "transported" -> "transportTime"
      [] newStatus = "arrived_at_hospital" -> "hospitalArrivalTime"
      [] newStatus = "completed" -> "completionTime"
      [] OTHER -> "none"

\* a transition that stamps no milestone
updateStatusNoStamp(copy, newStatus, updatedBy, details, now) ==
    addTimelineEvent(SetPath(copy, "status", newStatus), "Status changed to",
                     newStatus, details, updatedBy, now)

\* emergencySchema.methods.updateStatus, up to its save(): no test of the current
\* status is made
updateStatus(copy, newStatus, updatedBy, details, now) ==
    LET c1 == SetPath(copy, "status", newStatus)
        c2 == addTimelineEvent(c1, "Status changed to", newStatus, details, updatedBy, now)
    IN IF MilestoneOf(newStatus) = "none"
       THEN c2
       ELSE SetPath(c2, MilestoneOf(newStatus), now)

\* an assignment that leaves no trace in the timeline
assignHospitalUnlogged(copy, hospital, now) ==
    SetPath(copy, "assignedHospital", hospital)

\* emergencySchema.methods.assignHospital, up to its save()
assignHospital(copy, hospital, now) ==
    addTimelineEvent(SetPath(copy, "assignedHospital", hospital),
                     "Hospital assigned", hospital, "Assigned", "system", now)

\* a save that writes the handler's whole copy over the stored document
SaveWholeDocument(stored, copy) == [copy.doc EXCEPT !.exists = TRUE]

\* document.save(): $set of the modified scalar paths, $push of the new entries
SaveEmergency(stored, copy) ==
    [exists |-> TRUE,
     status |-> IF "status" \in copy.mod THEN copy.doc.status ELSE stored.status,
     timeline |-> stored.timeline \o copy.pushed,
     assignedHospital |-> IF "assignedHospital" \in copy.mod
                          THEN copy.doc.assignedHospital ELSE stored.assignedHospital,
     ambulanceId |-> IF "ambulanceId" \in copy.mod
                     THEN copy.doc.ambulanceId ELSE stored.ambulanceId,
     dispatchTime |-> IF "dispatchTime" \in copy.mod
                      THEN copy.doc.dispatchTime ELSE stored.dispatchTime,
     arrivalTime |-> IF "arrivalTime" \in copy.mod
                     THEN copy.doc.arrivalTime ELSE stored.arrivalTime,
     transportTime |-> IF "transportTime" \in copy.mod
                       THEN copy.doc.transportTime ELSE stored.transportTime,
     hospitalArrivalTime |-> IF "hospitalArrivalTime" \in copy.mod
                             THEN copy.doc.hospitalArrivalTime
                             ELSE stored.hospitalArrivalTime,
     completionTime |-> IF "completionTime" \in copy.mod
                        THEN copy.doc.completionTime ELSE stored.completionTime]

\* the document after its save() resolved: nothing pending any more
Saved(copy) == [copy EXCEPT !.pushed = <<>>, !.mod = {}]

----------------------------------------------------------------------------
(* Hospital matching (HospitalService.findNearbyHospitals) *)

\* Locations are metres along one meridian, where the Haversine distance of
\* calculateDistance is the difference of the two positions.
calculateDistance(a, b) == IF a >= b THEN a - b ELSE b - a

DefaultMaxDistance == 50000
QueryLimit == 20

\* the seeded hospitals' fixed attributes (scripts/seedDatabase.js), rating in tenths
HospitalProfile ==
    [h1 |-> [position |-> 2000, status |-> "Active", traumaLevel |-> "Level I",
             strokeCenter |-> TRUE, heartAttackCenter |-> TRUE, burnCenter |-> FALSE,
             poisonControl |-> TRUE, specialties |-> {"Emergency Medicine", "Cardiology",
                 "Neurology", "Trauma Center", "Surgery", "Intensive Care"},
             mriMachine |-> TRUE, ctScan |-> TRUE, defibrillators |-> 25,
             ventilators |-> 40, bloodBank |-> TRUE, rating |-> 45],
     h2 |-> [position |-> 6000, status |-> "Active", traumaLevel |-> "Level II",
             strokeCenter |-> TRUE, heartAttackCenter |-> TRUE, burnCenter |-> FALSE,
             poisonControl |-> FALSE, specialties |-> {"Emergency Medicine", "Maternity",
                 "Pediatrics", "Cardiology", "Surgery", "Mental Health"},
             mriMachine |-> TRUE, ctScan |-> TRUE, defibrillators |-> 15,
             ventilators |-> 20, bloodBank |-> TRUE, rating |-> 42]]

\* hospitalSchema.methods.canHandleEmergency
canHandleEmergency(p, emergencyType) ==
    CASE emergencyType = "cardiac" -> p.heartAttackCenter
      [] emergencyType = "stroke" -> p.strokeCenter
      [] emergencyType = "trauma" -> p.traumaLevel # "None"
      [] emergencyType = "burns" -> p.burnCenter
      [] emergencyType = "poisoning" -> p.poisonControl
      [] emergencyType = "neurological" -> "Neurology" \in p.specialties
      [] emergencyType = "respiratory" -> p.ventilators > 0
      [] emergencyType = "childbirth" -> "Maternity" \in p.specialties
      [] emergencyType = "other" -> TRUE
      [] OTHER -> FALSE

Min(a, b) == IF a <= b THEN a ELSE b
Max(a, b) == IF a >= b THEN a ELSE b

\* the sum of the points without the cap at 100
calculateEmergencyScoreUncapped(p, c, emergencyType, severity) ==
      (IF c.availableBeds > 0 THEN 30 ELSE 0)
    + (IF c.availableEmergencyRooms > 0 THEN 20 ELSE 0)
    + (IF canHandleEmergency(p, emergencyType) THEN 25 ELSE 0)
    + (IF severity = "critical"
       THEN (IF p.traumaLevel = "Level I" THEN 15
             ELSE IF p.traumaLevel = "Level II" THEN 10 ELSE 0)
            + (IF c.availableIcuBeds > 0 THEN 10 ELSE 0)
       ELSE 0)
    + (IF p.ctScan THEN 5 ELSE 0)
    + (IF p.mriMachine THEN 5 ELSE 0)
    + (IF p.ventilators > 0 THEN 5 ELSE 0)

\* hospitalSchema.methods.calculateEmergencyScore
calculateEmergencyScore(p, c, emergencyType, severity) ==
    Min(100,
        (IF c.availableBeds > 0 THEN 30 ELSE 0)
      + (IF c.availableEmergencyRooms > 0 THEN 20 ELSE 0)
      + (IF canHandleEmergency(p, emergencyType) THEN 25 ELSE 0)
      + (IF severity = "critical"
         THEN (IF p.traumaLevel = "Level I" THEN 15
               ELSE IF p.traumaLevel = "Level II" THEN 10 ELSE 0)
              + (IF c.availableIcuBeds > 0 THEN 10 ELSE 0)
         ELSE 0)
      + (IF p.ctScan THEN 5 ELSE 0)
      + (IF p.mriMachine THEN 5 ELSE 0)
      + (IF p.ventilators > 0 THEN 5 ELSE 0))

\* the points for rooms and equipment with the equipment held to 20
CapacityFlagPointsCapped(p, c) ==
      (IF c.availableEmergencyRooms > 0 THEN 25 ELSE 0)
    + (IF c.availableIcuBeds > 0 THEN 20 ELSE 0)
    + Min(20, (IF p.ctScan THEN 5 ELSE 0)
            + (IF p.mriMachine THEN 5 ELSE 0)
            + (IF p.ventilators > 0 THEN 5 ELSE 0)
            + (IF p.defibrillators > 0 THEN 5 ELSE 0)
            + (IF p.bloodBank THEN 5 ELSE 0))

\* calculateCapacityScore without its bed term: the points for rooms and equipment
CapacityFlagPoints(p, c) ==
      (IF c.availableEmergencyRooms > 0 THEN 25 ELSE 0)
    + (IF c.availableIcuBeds > 0 THEN 20 ELSE 0)
    + (IF p.ctScan THEN 5 ELSE 0)
    + (IF p.mriMachine THEN 5 ELSE 0)
    + (IF p.ventilators > 0 THEN 5 ELSE 0)
    + (IF p.defibrillators > 0 THEN 5 ELSE 0)
    + (IF p.bloodBank THEN 5 ELSE 0)

\* The scores are fractions; each is kept as a numerator over a stated denominator.
\* calculateCapacityScore times totalBeds:
\* min(availableBeds / totalBeds * 30 + points, 100) * totalBeds
CapacityScoreTimesBeds(p, c) ==
    Min(30 * c.availableBeds + CapacityFlagPoints(p, c) * c.totalBeds,
        100 * c.totalBeds)

\* calculateDistanceScore times maxDistance
DistanceScoreTimesMax(distance, maxDistance) ==
    IF distance >= maxDistance THEN 0
    ELSE Max(0, 100 * maxDistance - 100 * distance)

\* the weighted sum cut off at the whole number below
finalScoreTruncated(p, c, distance, emergencyType, severity, maxDistance) ==
    LET den == 10 * maxDistance * c.totalBeds
        num == 4 * calculateEmergencyScore(p, c, emergencyType, severity)
                 * maxDistance * c.totalBeds
             + 3 * DistanceScoreTimesMax(distance, maxDistance) * c.totalBeds
             + 3 * CapacityScoreTimesBeds(p, c) * maxDistance
    IN num \div den

\* Math.round(emergencyScore * 0.4 + distanceScore * 0.3 + capacityScore * 0.3),
\* computed over the denominator 10 * maxDistance * totalBeds
finalScore(p, c, distance, emergencyType, severity, maxDistance) ==
    LET den == 10 * maxDistance * c.totalBeds
        num == 4 * calculateEmergencyScore(p, c, emergencyType, severity)
                 * maxDistance * c.totalBeds
             + 3 * DistanceScoreTimesMax(distance, maxDistance) * c.totalBeds
             + 3 * CapacityScoreTimesBeds(p, c) * maxDistance
    IN (2 * num + den) \div (2 * den)

\* a filter that does not look at the status
MatchesAnyStatus(ps, hs, h, location, maxDistance) ==
    /\ hs[h].availableBeds > 0
    /\ calculateDistance(location, ps[h].position) <= maxDistance

\* the filter of Hospital.find in findNearbyHospitals
\* (ps: the hospitals' fixed attributes, hs: their capacities)
MatchesQuery(ps, hs, h, location, maxDistance) ==
    /\ ps[h].status = "Active"
    /\ hs[h].availableBeds > 0
    /\ calculateDistance(location, ps[h].position) <= maxDistance

\* the orders in which $near may return the hospitals of match: nearest first,
\* equal distances in either order
RECURSIVE NearOrders(_, _, _)
NearOrders(ps, match, location) ==
    IF match = {} THEN {<<>>}
    ELSE LET dist(h) == calculateDistance(location, ps[h].position)
             nearest == {h \in match : \A g \in match : dist(h) <= dist(g)}
         IN UNION {{<<h>> \o rest : rest \in NearOrders(ps, match \ {h}, location)} :
                      h \in nearest}

\* the query of findNearbyHospitals over the stored hospitals (the domain of ps):
\* $near returns the matching ones nearest first, .limit(20) keeps the first 20
NearQuery(ps, hs, location, maxDistance) ==
    LET match == {h \in DOMAIN ps : MatchesQuery(ps, hs, h, location, maxDistance)}
    IN {SubSeq(q, 1, Min(Len(q), QueryLimit)) : q \in NearOrders(ps, match, location)}

\* one entry of scoredHospitals
Scored(ps, hs, h, location, emergencyType, severity, maxDistance) ==
    [hospital |-> h,
     distance |-> calculateDistance(location, ps[h].position),
     score |-> finalScore(ps[h], hs[h],
                          calculateDistance(location, ps[h].position),
                          emergencyType, severity, maxDistance)]

\* scoredHospitals.sort((a, b) => b.score - a.score): stable, highest score first
InsertByScore(sorted, x) ==
    LET k == Cardinality({i \in DOMAIN sorted : sorted[i].score >= x.score})
    IN SubSeq(sorted, 1, k) \o <<x>> \o SubSeq(sorted, k + 1, Len(sorted))

RECURSIVE SortByScore(_)
SortByScore(seq) ==
    IF seq = <<>> THEN <<>>
    ELSE InsertByScore(SortByScore(SubSeq(seq, 1, Len(seq) - 1)), seq[Len(seq)])

\* the lists findNearbyHospitals may return, one per order the query may answer in
findNearbyHospitals(ps, hs, location, emergencyType, severity, maxDistance) ==
    {SortByScore([i \in DOMAIN q |->
                    Scored(ps, hs, q[i], location, emergencyType, severity,
                           maxDistance)]) :
        q \in NearQuery(ps, hs, location, maxDistance)}

----------------------------------------------------------------------------
(* The ambulance pool (services/ambulanceService.js) *)

Units == {"AMB001", "AMB002"}

\* this.ambulanceUnits, in array order, and where each unit stands
UnitOrder == <<"AMB001", "AMB002">>

UnitPosition == [AMB001 |-> 1000, AMB002 |-> 3000]

DispatchPhone == "+1-555-AMBULANCE"

NoCurrentEmergency ==
    [emergencyId |-> NoEmergency, location |-> 0, severity |-> "none",
     emergencyType |-> "none"]

\* the constructor's units
InitialUnits ==
    [u \in Units |-> [status |-> "available", currentEmergency |-> NoCurrentEmergency,
                      reservedFor |-> NoEmergency, reservationTime |-> 0]]

\* a selection that takes the first available unit, whatever its distance
findFirstAvailableAmbulance(units, location) ==
    LET avail == {i \in DOMAIN UnitOrder : units[UnitOrder[i]].status = "available"}
    IN IF avail = {} THEN NoUnit
       ELSE UnitOrder[CHOOSE i \in avail : \A j \in avail : i <= j]

\* findNearestAvailableAmbulance: the first unit, in array order, at the least
\* distance among the available ones (the comparison is a strict <)
findNearestAvailableAmbulance(units, location) ==
    LET avail == {i \in DOMAIN UnitOrder : units[UnitOrder[i]].status = "available"}
        dist(i) == calculateDistance(location, UnitPosition[UnitOrder[i]])
    IN IF avail = {} THEN NoUnit
       ELSE UnitOrder[CHOOSE i \in avail :
                \A j \in avail : dist(i) < dist(j) \/ (dist(i) = dist(j) /\ i <= j)]

\* an ETA without the floor of five minutes
calculateETAUnfloored(distance, severity) ==
    LET averageSpeed == IF severity = "critical" THEN 80
                        ELSE IF severity = "urgent" THEN 70 ELSE 60
        timeMinutes == (distance * 60 + 1000 * averageSpeed - 1) \div (1000 * averageSpeed)
    IN timeMinutes + 2

\* calculateETA: minutes, Math.ceil of distance / 1000 / speed * 60, plus 2, at least 5
calculateETA(distance, severity) ==
    LET averageSpeed == IF severity = "critical" THEN 80
                        ELSE IF severity = "urgent" THEN 70 ELSE 60
        timeMinutes == (distance * 60 + 1000 * averageSpeed - 1) \div (1000 * averageSpeed)
    IN Max(timeMinutes + 2, 5)

\* a dispatch that leaves the unit as it found it
dispatchWithoutMark(units, u, emergencyId, location, severity, emergencyType) == units

\* dispatchAmbulance: the unit is marked in the same turn that selected it
dispatchAmbulance(units, u, emergencyId, location, severity, emergencyType) ==
    [units EXCEPT
        ![u].status = "dispatched",
        ![u].currentEmergency = [emergencyId |-> emergencyId, location |-> location,
                                 severity |-> severity, emergencyType |-> emergencyType]]

\* updateAmbulanceStatus: any status string is stored; an unknown id is ignored
updateAmbulanceStatus(units, ambulanceId, newStatus) ==
    IF ambulanceId \in Units
    THEN [units EXCEPT ![ambulanceId].status = newStatus]
    ELSE units

\* ids a caller may name: the units and one id that names no unit
UnitIds == Units \cup {"AMB999"}

\* what reserveAmbulance throws, or "reserved" when it returns
reserveAmbulanceOutcome(units, ambulanceId) ==
    IF ambulanceId \notin Units THEN "Ambulance not found"
    ELSE IF units[ambulanceId].status # "available" THEN "Ambulance not available"
    ELSE "reserved"

\* reserveAmbulance: the pool after the call
reserveAmbulance(units, ambulanceId, emergencyId, now) ==
    IF reserveAmbulanceOutcome(units, ambulanceId) = "reserved"
    THEN [units EXCEPT ![ambulanceId].status = "reserved",
                       ![ambulanceId].reservedFor = emergencyId,
                       ![ambulanceId].reservationTime = now]
    ELSE units

\* a release that resets the status only
releaseStatusOnly(units, ambulanceId) ==
    IF ambulanceId \in Units
    THEN [units EXCEPT ![ambulanceId].status = "available"]
    ELSE units

\* releaseAmbulance: status available, the three references deleted; an unknown
\* id is ignored
releaseAmbulance(units, ambulanceId) ==
    IF ambulanceId \in Units
    THEN [units EXCEPT ![ambulanceId] =
            [status |-> "available", currentEmergency |-> NoCurrentEmergency,
             reservedFor |-> NoEmergency, reservationTime |-> 0]]
    ELSE units

NoDispatch ==
    [success |-> FALSE, ambulanceId |-> NoUnit, estimatedArrival |-> 0,
     dispatchPhone |-> "none"]

\* an answer that names the dispatch centre only when a unit was dispatched
requestAmbulanceWithoutFallback(units, location, severity) ==
    LET u == findNearestAvailableAmbulance(units, location)
    IN IF u = NoUnit
       THEN NoDispatch
       ELSE [success |-> TRUE, ambulanceId |-> u,
             estimatedArrival |->
                 calculateETA(calculateDistance(location, UnitPosition[u]), severity),
             dispatchPhone |-> DispatchPhone]

\* what requestAmbulance returns
requestAmbulanceResult(units, location, severity) ==
    LET u == findNearestAvailableAmbulance(units, location)
    IN IF u = NoUnit
       THEN [success |-> FALSE, ambulanceId |-> NoUnit, estimatedArrival |-> 0,
             dispatchPhone |-> DispatchPhone]
       ELSE [success |-> TRUE, ambulanceId |-> u,
             estimatedArrival |->
                 calculateETA(calculateDistance(location, UnitPosition[u]), severity),
             dispatchPhone |-> DispatchPhone]

\* the pool after requestAmbulance
requestAmbulanceUnits(units, emergencyId, location, severity, emergencyType) ==
    LET u == findNearestAvailableAmbulance(units, location)
    IN IF u = NoUnit THEN units
       ELSE dispatchAmbulance(units, u, emergencyId, location, severity, emergencyType)

\* the setTimeout of dispatchAmbulance, if a unit was dispatched
requestAmbulanceTimers(units, emergencyId, location) ==
    LET u == findNearestAvailableAmbulance(units, location)
    IN IF u = NoUnit THEN {} ELSE {[unit |-> u, emergencyId |-> emergencyId]}

\* the callback of that setTimeout, 2 s after the dispatch
UnitEnRouteTimer ==
    \E t \in timers :
        /\ ambulanceUnits' = updateAmbulanceStatus(ambulanceUnits, t.unit, "en_route")
        /\ timers' = timers \ {t}
        /\ UNCHANGED <<emergencies, clock, sub, req>>
        /\ UNCHANGED hvars

----------------------------------------------------------------------------
(* Notifications (services/notificationService.js) *)

\* how a notification ends: every message sent and logged, or an error thrown
\* inside it (the SMS provider, logCommunication's save, notifyHospital, ...)
NotificationOutcomes == {"sent", "failed"}

\* a handler whose notification error reaches its own catch block
answerUnlessNotificationFailed(resp, outcome) ==
    IF outcome = "failed" THEN "500" ELSE resp

\* sendEmergencyNotification, sendStatusUpdate and sendCancellationNotification
\* catch what is thrown inside them and log it: the handler goes on to the answer
\* it was about to give
answerAfterNotification(resp, outcome) == resp

----------------------------------------------------------------------------
(* POST /submit (routes/emergency.js) *)

\* request bodies: location (metres along the meridian), emergencyType, severity
SubmitInputs ==
    {[location |-> 0, type |-> "cardiac", severity |-> "critical"],
     [location |-> 4000, type |-> "other", severity |-> "moderate"]}

IdleSubmit ==
    [pc |-> "idle", copy |-> NoCopy, location |-> 0, type |-> "none",
     severity |-> "none", nearby |-> <<>>, dispatch |-> NoDispatch, resp |-> "none",
     notified |-> "none"]

\* emergency ids are taken in order (they are interchangeable)
NextEmergencyId(e) ==
    /\ sub[e].pc = "idle"
    /\ e = "e2" => sub["e1"].pc # "idle"

\* emergency.save() of the new document has resolved; the handler pushes the
\* 'Emergency submitted' event and issues the next save
SubmitRequest(e) ==
    \E in \in SubmitInputs :
        /\ NextEmergencyId(e)
        /\ emergencies' = [emergencies EXCEPT ![e] = NewEmergency]
        /\ clock' = [clock EXCEPT ![e] = @ + 1]
        /\ sub' = [sub EXCEPT ![e] =
              [IdleSubmit EXCEPT
                  !.pc = "timeline",
                  !.copy = addTimelineEvent(CopyOf(NewEmergency), "Emergency submitted",
                                            "", "description", "patient", clock[e] + 1),
                  !.location = in.location, !.type = in.type,
                  !.severity = in.severity]]
        /\ UNCHANGED <<ambulanceUnits, timers, req>>
        /\ UNCHANGED hvars

\* addTimelineEvent's save has resolved; findNearbyHospitals is called
SubmitTimelineSaved(e) ==
    /\ sub[e].pc = "timeline"
    /\ emergencies' = [emergencies EXCEPT ![e] = SaveEmergency(@, sub[e].copy)]
    /\ sub' = [sub EXCEPT ![e].pc = "finding", ![e].copy = Saved(@)]
    /\ UNCHANGED <<clock, ambulanceUnits, timers, req>>
    /\ UNCHANGED hvars

\* the ambulance is requested and the status is left alone
DispatchWithoutProcess(e, s) ==
    /\ ambulanceUnits' = requestAmbulanceUnits(ambulanceUnits, e, s.location,
                                               s.severity, s.type)
    /\ timers' = timers \cup requestAmbulanceTimers(ambulanceUnits, e, s.location)
    /\ clock' = clock
    /\ sub' = [sub EXCEPT ![e] =
          [s EXCEPT
              !.pc = "processing",
              !.dispatch = requestAmbulanceResult(ambulanceUnits, s.location, s.severity)]]

\* From requestAmbulance to the save() of updateStatus('processing'): one turn of
\* the event loop (requestAmbulance and dispatchAmbulance await nothing pending).
\* s is the handler state this turn starts from.
DispatchAndProcess(e, s) ==
    /\ ambulanceUnits' = requestAmbulanceUnits(ambulanceUnits, e, s.location,
                                               s.severity, s.type)
    /\ timers' = timers \cup requestAmbulanceTimers(ambulanceUnits, e, s.location)
    /\ clock' = [clock EXCEPT ![e] = @ + 1]
    /\ sub' = [sub EXCEPT ![e] =
          [s EXCEPT
              !.pc = "processing",
              !.dispatch = requestAmbulanceResult(ambulanceUnits, s.location, s.severity),
              !.copy = updateStatus(s.copy, "processing", "system", "Finding",
                                    clock[e] + 1)]]

\* the hospital nearbyHospitals[0] that POST /submit assigns: no bed is reserved
bestHospital(nearby) == nearby[1].hospital

\* the query of findNearbyHospitals has answered.  With a candidate the handler
\* calls assignHospital on the first one; without, it goes on to the ambulance.
SubmitFound(e) ==
    /\ sub[e].pc = "finding"
    /\ \E nearby \in findNearbyHospitals(HospitalProfile, hospitals,
                                         sub[e].location, sub[e].type,
                                         sub[e].severity, DefaultMaxDistance) :
          IF Len(nearby) > 0
          THEN /\ sub' = [sub EXCEPT
                     ![e].pc = "assigning",
                     ![e].nearby = nearby,
                     ![e].copy = assignHospital(@, bestHospital(nearby), clock[e] + 1)]
               /\ clock' = [clock EXCEPT ![e] = @ + 1]
               /\ UNCHANGED <<ambulanceUnits, timers>>
          ELSE DispatchAndProcess(e, sub[e])
    /\ UNCHANGED <<emergencies, req>>
    /\ UNCHANGED hvars

\* assignHospital's save has resolved; the ambulance is requested
SubmitAssigned(e) ==
    /\ sub[e].pc = "assigning"
    /\ emergencies' = [emergencies EXCEPT ![e] = SaveEmergency(@, sub[e].copy)]
    /\ DispatchAndProcess(e, [sub[e] EXCEPT !.copy = Saved(@)])
    /\ UNCHANGED req
    /\ UNCHANGED hvars

\* updateStatus('processing') has been saved; the notification ends in one of
\* outcomes, the 3 s timer is set and the response is sent.  logCommunication
\* writes the communications path only, which the documents here do not carry.
SubmitProcessedNotifying(e, outcomes) ==
    \E outcome \in outcomes :
        /\ sub[e].pc = "processing"
        /\ emergencies' = [emergencies EXCEPT ![e] = SaveEmergency(@, sub[e].copy)]
        /\ sub' = [sub EXCEPT ![e].pc = "timer", ![e].copy = Saved(@),
                              ![e].resp = answerAfterNotification("200", outcome),
                              ![e].notified = outcome]
        /\ UNCHANGED <<clock, ambulanceUnits, timers, req>>
        /\ UNCHANGED hvars

\* a handler that answers with an error when no unit was dispatched
SubmitProcessedOrAbort(e) ==
    /\ sub[e].pc = "processing"
    /\ emergencies' = [emergencies EXCEPT ![e] = SaveEmergency(@, sub[e].copy)]
    /\ sub' = [sub EXCEPT ![e].pc = "timer", ![e].copy = Saved(@),
                          ![e].resp = IF sub[e].dispatch.success THEN "200" ELSE "500",
                          ![e].notified = "sent"]
    /\ UNCHANGED <<clock, ambulanceUnits, timers, req>>
    /\ UNCHANGED hvars

\* the same step with every notification delivered
SubmitProcessed(e) == SubmitProcessedNotifying(e, {"sent"})

\* the setTimeout callback of POST /submit: updateStatus('ambulance_dispatched') on
\* the handler's own document, whatever the stored status is by then.  It is set
\* after the 2 s timer of this emergency's dispatch and for 3 s, so it runs later.
SubmitDispatchTimer(e) ==
    /\ sub[e].pc = "timer"
    /\ \A t \in timers : t.emergencyId # e
    /\ emergencies' = [emergencies EXCEPT ![e] =
          SaveEmergency(@, updateStatus(sub[e].copy, "ambulance_dispatched",
                                        "dispatch_system", "Ambulance unit dispatched",
                                        clock[e] + 1))]
    /\ clock' = [clock EXCEPT ![e] = @ + 1]
    /\ sub' = [sub EXCEPT ![e].pc = "done", ![e].copy = NoCopy]
    /\ UNCHANGED <<ambulanceUnits, timers, req>>
    /\ UNCHANGED hvars

----------------------------------------------------------------------------
(* PATCH /status/:emergencyId, PATCH /cancel/:emergencyId and                *)
(* PATCH /ambulance/:id/status                                              *)

Requests == 1 .. MaxRequests

Actors == {"paramedic"}

\* statuses a PATCH /status request asks for (the validator takes the whole enum)
RequestedStatuses == {"arrived_at_scene", "completed"}

\* what a request asks for: the target status, the actor and the details
NoBody == [status |-> "none", updatedBy |-> "none", details |-> "none"]

IdleRequest ==
    [pc |-> "idle", kind |-> "none", e |-> NoEmergency, body |-> NoBody,
     copy |-> NoCopy, resp |-> "none", notified |-> "none", unit |-> NoUnit]

\* a request that has been answered: only the answer is kept
Answered(resp) == [IdleRequest EXCEPT !.pc = "done", !.resp = resp]

\* slots are taken in order (they are interchangeable)
FreeRequest(r) ==
    /\ req[r].pc = "idle"
    /\ \A j \in Requests : j < r => req[j].pc # "idle"

TerminalStatuses == {"completed", "cancelled"}

\* PATCH /ambulance/:id/status: updateAmbulanceStatus and the answer, in one turn;
\* the route takes any string as the status, two are tried
PatchAmbulanceStatus(r) ==
    \E u \in Units, st \in {"available", "maintenance"} :
        /\ FreeRequest(r)
        /\ ambulanceUnits' = updateAmbulanceStatus(ambulanceUnits, u, st)
        /\ req' = [req EXCEPT ![r] =
              Answered("200")]
        /\ UNCHANGED <<emergencies, clock, timers, sub>>
        /\ UNCHANGED hvars

\* a caller of ambulanceService.reserveAmbulance: the pool is changed or the call
\* throws, in one turn; the id it named is kept with the outcome
ReserveAmbulance(r) ==
    \E id \in UnitIds, e \in EmergencyIds :
        /\ FreeRequest(r)
        /\ ambulanceUnits' = reserveAmbulance(ambulanceUnits, id, e, clock[e] + 1)
        /\ clock' = IF reserveAmbulanceOutcome(ambulanceUnits, id) = "reserved"
                    THEN [clock EXCEPT ![e] = @ + 1]
                    ELSE clock
        /\ req' = [req EXCEPT ![r] =
              [Answered(reserveAmbulanceOutcome(ambulanceUnits, id))
                  EXCEPT !.unit = id]]
        /\ UNCHANGED <<emergencies, timers, sub>>
        /\ UNCHANGED hvars

\* a caller of ambulanceService.releaseAmbulance: it returns nothing and throws
\* nothing
ReleaseAmbulance(r) ==
    \E id \in UnitIds :
        /\ FreeRequest(r)
        /\ ambulanceUnits' = releaseAmbulance(ambulanceUnits, id)
        /\ req' = [req EXCEPT ![r] = [Answered("returned") EXCEPT !.unit = id]]
        /\ UNCHANGED <<emergencies, clock, timers, sub>>
        /\ UNCHANGED hvars

\* PATCH /status: findOne has answered; a found document gets updateStatus(status)
\* with no test of its current status, and the save is issued
StatusLoad(r) ==
    \E e \in EmergencyIds, st \in RequestedStatuses, by \in Actors :
        /\ FreeRequest(r)
        /\ IF ~emergencies[e].exists
           THEN /\ req' = [req EXCEPT ![r] =
                      Answered("404")]
                /\ UNCHANGED clock
           ELSE /\ req' = [req EXCEPT ![r] =
                      [pc |-> "saving", kind |-> "status", e |-> e,
                       body |-> [status |-> st, updatedBy |-> by, details |-> ""],
                       copy |-> updateStatus(CopyOf(emergencies[e]), st, by, "",
                                             clock[e] + 1),
                       resp |-> "200", notified |-> "none", unit |-> NoUnit]]
                /\ clock' = [clock EXCEPT ![e] = @ + 1]
        /\ UNCHANGED <<emergencies, ambulanceUnits, timers, sub>>
        /\ UNCHANGED hvars

\* a cancel that calls updateStatus before it tests the status it loaded
cancelAfterUpdate(copy, cancelledBy, reason, now) ==
    [resp |-> IF copy.doc.status \in TerminalStatuses THEN "400" ELSE "200",
     save |-> TRUE,
     copy |-> updateStatus(copy, "cancelled", cancelledBy, reason, now)]

\* PATCH /cancel on the loaded document: refused with 400 before anything is
\* changed when the status is completed or cancelled, else updateStatus('cancelled');
\* resp is the answer sent, at once or when the save has resolved
cancelOnCopy(copy, cancelledBy, reason, now) ==
    IF copy.doc.status \in TerminalStatuses
    THEN [resp |-> "400", save |-> FALSE, copy |-> copy]
    ELSE [resp |-> "200", save |-> TRUE,
          copy |-> updateStatus(copy, "cancelled", cancelledBy, reason, now)]

\* PATCH /cancel: findOne has answered.  Neither the bed nor the ambulance unit of
\* the emergency is touched by this handler.
CancelLoad(r) ==
    \E e \in EmergencyIds :
        /\ FreeRequest(r)
        /\ IF ~emergencies[e].exists
           THEN /\ req' = [req EXCEPT ![r] =
                      Answered("404")]
                /\ UNCHANGED clock
           ELSE LET out == cancelOnCopy(CopyOf(emergencies[e]), "patient",
                                        "User cancelled", clock[e] + 1)
                IN /\ req' = [req EXCEPT ![r] =
                         IF out.save
                         THEN [pc |-> "saving", kind |-> "cancel", e |-> e,
                               body |-> [status |-> "cancelled",
                                         updatedBy |-> "patient",
                                         details |-> "User cancelled"],
                               copy |-> out.copy, resp |-> out.resp,
                               notified |-> "none", unit |-> NoUnit]
                         ELSE Answered(out.resp)]
                   /\ clock' = IF out.save THEN [clock EXCEPT ![e] = @ + 1] ELSE clock
        /\ UNCHANGED <<emergencies, ambulanceUnits, timers, sub>>
        /\ UNCHANGED hvars

\* the save of updateStatus has resolved; the notification (sendStatusUpdate or
\* sendCancellationNotification) ends in one of outcomes and the handler answers
RequestSavedNotifying(r, outcomes) ==
    \E outcome \in outcomes :
        /\ req[r].pc = "saving"
        /\ emergencies' = [emergencies EXCEPT ![req[r].e] =
                              SaveEmergency(@, req[r].copy)]
        /\ req' = [req EXCEPT ![r] =
              [Answered(answerAfterNotification(req[r].resp, outcome))
                  EXCEPT !.notified = outcome]]
        /\ UNCHANGED <<clock, ambulanceUnits, timers, sub>>
        /\ UNCHANGED hvars

\* the same step with every notification delivered
RequestSaved(r) == RequestSavedNotifying(r, {"sent"})

----------------------------------------------------------------------------
(* Initial states *)

SeedCapacity ==
    {c \in [CapFields -> 0 .. MaxBeds] :
        /\ c.totalBeds = MaxBeds
        /\ c.icuBeds = MaxIcu
        /\ c.availableIcuBeds = c.icuBeds
        /\ c.availableBeds <= c.totalBeds
        /\ c.emergencyRooms = 1
        /\ c.availableEmergencyRooms = 1}

----------------------------------------------------------------------------
(* Geocoding (services/geocodingService.js) *)

\* A request to a provider ends with a usable result ("found"), an answer without
\* one ("not_found") or an error ("error": timeout, HTTP error).

\* what a geocoding operation returns, and the providers it asked, in order

\* reverseGeocodeGoogle, reverseGeocodeNominatim, ...: each catches its own
\* errors and returns {success: false} for them and for an empty answer
providerResult(provider, outcome, consulted) ==
    [success |-> outcome = "found", provider |-> provider, consulted |-> consulted]

\* reverseGeocode and forwardGeocode: Google first when a key is configured,
\* Nominatim when there is no key or Google had no success
geocodeWithFallback(key, google, nominatim) ==
    IF key /\ google = "found"
    THEN providerResult("google", google, <<"google">>)
    ELSE providerResult("nominatim", nominatim,
                        IF key THEN <<"google", "nominatim">> ELSE <<"nominatim">>)

\* findNearbyPlaces: Google when a key is configured, else Nominatim
findNearbyPlaces(key, google, nominatim) ==
    IF key
    THEN providerResult("google", google, <<"google">>)
    ELSE providerResult("nominatim", nominatim, <<"nominatim">>)

geocode(op, key, google, nominatim) ==
    IF op = "findNearbyPlaces"
    THEN findNearbyPlaces(key, google, nominatim)
    ELSE geocodeWithFallback(key, google, nominatim)

\* no pure call made yet
NoCalc ==
    [op |-> "none", distance |-> 0, severity |-> "none", result |-> 0,
     location |-> 0, type |-> "none", maxDistance |-> 0, profiles |-> <<>>,
     list |-> <<>>, key |-> FALSE, google |-> "none", nominatim |-> "none",
     answer |-> [success |-> FALSE, provider |-> "none", consulted |-> <<>>],
     hospital |-> <<>>, capacity |-> <<>>]

InitCapacity ==
    /\ hospitals \in [Hospitals -> SeedCapacity]
    /\ seeded = hospitals
    /\ hcall = [k \in Calls |-> IdleCall]
    /\ emergencies = [e \in EmergencyIds |-> NotStored]
    /\ clock = [e \in EmergencyIds |-> 0]
    /\ ambulanceUnits = InitialUnits
    /\ timers = {}
    /\ sub = [e \in EmergencyIds |-> IdleSubmit]
    /\ req = [r \in Requests |-> IdleRequest]
    /\ calc = NoCalc

\* the hospital service called directly, several calls at a time
NextCapacity ==
    \E k \in Calls :
        \/ ReserveBedLoad(k)
        \/ UpdateCapacityLoad(k)
        \/ HospitalSave(k)

SpecCapacity == InitCapacity /\ [][NextCapacity]_vars

\* the hospitals of the emergency flow are full or have every bed free
Init ==
    /\ InitCapacity
    /\ \A h \in Hospitals : hospitals[h].availableBeds \in {0, hospitals[h].totalBeds}

SubmitStep(e) ==
    \/ SubmitRequest(e)
    \/ SubmitTimelineSaved(e)
    \/ SubmitFound(e)
    \/ SubmitAssigned(e)
    \/ SubmitProcessed(e)
    \/ SubmitDispatchTimer(e)

\* submissions racing for the hospitals and the ambulance pool
NextSubmit ==
    \/ \E e \in EmergencyIds : SubmitStep(e)
    \/ \E r \in Requests : PatchAmbulanceStatus(r)
    \/ UnitEnRouteTimer

SpecSubmit == Init /\ [][NextSubmit]_vars

\* the emergency followed through its life
Tracked == "e1"

\* one submission and the PATCH requests and timers that follow it
Next ==
    \/ SubmitStep(Tracked)
    \/ \E r \in Requests :
          \/ StatusLoad(r)
          \/ CancelLoad(r)
          \/ RequestSaved(r)
          \/ PatchAmbulanceStatus(r)
    \/ UnitEnRouteTimer

Spec == Init /\ [][Next]_vars

NoRequestInFlight == \A q \in Requests : req[q].pc # "saving"

\* a PATCH /status or PATCH /cancel request sent when the one before was answered
StatusLoadAlone(r) == NoRequestInFlight /\ StatusLoad(r)

CancelLoadAlone(r) == NoRequestInFlight /\ CancelLoad(r)

\* the same with notifications that may fail, the PATCH requests one at a time
NextNotify ==
    \/ SubmitRequest(Tracked)
    \/ SubmitTimelineSaved(Tracked)
    \/ SubmitFound(Tracked)
    \/ SubmitAssigned(Tracked)
    \/ SubmitProcessedNotifying(Tracked, NotificationOutcomes)
    \/ SubmitDispatchTimer(Tracked)
    \/ \E r \in Requests :
          \/ StatusLoadAlone(r)
          \/ CancelLoadAlone(r)
          \/ RequestSavedNotifying(r, NotificationOutcomes)
    \/ UnitEnRouteTimer

SpecNotify == Init /\ [][NextNotify]_vars

\* the stores findNearbyHospitals is run against: the seeded hospitals, and the
\* same with the second one under maintenance
StoreProfiles ==
    {HospitalProfile, [HospitalProfile EXCEPT !["h2"].status = "Maintenance"]}

RankSeverities == {"critical", "urgent", "moderate"}

\* a call of hospitalService.findNearbyHospitals, from three places and with the
\* default radius or a short one
FindNearbyHospitals ==
    \E ps \in StoreProfiles, location \in {0, 4000, 54000}, type \in EmergencyTypes,
       severity \in RankSeverities, maxDistance \in {DefaultMaxDistance, 3000} :
        \E list \in findNearbyHospitals(ps, hospitals, location, type, severity,
                                        maxDistance) :
            /\ calc' = [NoCalc EXCEPT !.op = "findNearbyHospitals",
                                      !.location = location, !.type = type,
                                      !.severity = severity,
                                      !.maxDistance = maxDistance,
                                      !.profiles = ps, !.list = list]
            /\ UNCHANGED <<hospitals, seeded, hcall, emergencies, clock,
                           ambulanceUnits, timers, sub, req>>

NextRank == FindNearbyHospitals

SpecRank == InitCapacity /\ [][NextRank]_vars

\* a call of geocodingService.reverseGeocode, forwardGeocode or findNearbyPlaces,
\* with or without GOOGLE_MAPS_API_KEY and with each provider ending in any way
Geocode ==
    \E op \in {"reverseGeocode", "forwardGeocode", "findNearbyPlaces"},
       key \in BOOLEAN,
       google \in {"found", "not_found", "error"},
       nominatim \in {"found", "not_found", "error"} :
        /\ calc' = [NoCalc EXCEPT !.op = op, !.key = key, !.google = google,
                                  !.nominatim = nominatim,
                                  !.answer = geocode(op, key, google, nominatim)]
        /\ UNCHANGED <<hospitals, seeded, hcall, emergencies, clock, ambulanceUnits,
                       timers, sub, req>>

NextGeocode == Geocode

SpecGeocode == Init /\ [][NextGeocode]_vars

\* Hospital documents the two score functions are applied to.  A document has one
\* of the trauma levels, at most one of the four centres, at most one of the two
\* specialties the mapping looks for, and any equipment.
ScoreProfile(trauma, centre, specialties, ct, mri, vent, defib, blood) ==
    [position |-> 0, status |-> "Active", traumaLevel |-> trauma,
     strokeCenter |-> centre = "strokeCenter",
     heartAttackCenter |-> centre = "heartAttackCenter",
     burnCenter |-> centre = "burnCenter",
     poisonControl |-> centre = "poisonControl",
     specialties |-> specialties,
     mriMachine |-> mri, ctScan |-> ct, defibrillators |-> defib,
     ventilators |-> vent, bloodBank |-> blood, rating |-> 0]

\* capacities of a hospital of MaxBeds beds, MaxIcu ICU beds and one emergency room
ScoreCapacities ==
    {c \in [CapFields -> 0 .. MaxBeds] :
        /\ c.totalBeds = MaxBeds
        /\ c.icuBeds = MaxIcu
        /\ c.availableIcuBeds <= c.icuBeds
        /\ c.emergencyRooms = 1
        /\ c.availableEmergencyRooms <= c.emergencyRooms}

\* hospitalService.checkAvailability for a stored hospital: the reason it gives, or
\* "available"
checkAvailability(ps, hs, h, emergencyType) ==
    IF ps[h].status # "Active" THEN "Hospital not active"
    ELSE IF hs[h].availableBeds = 0 THEN "No available beds"
    ELSE IF ~canHandleEmergency(ps[h], emergencyType) THEN "Hospital not equipped"
    ELSE "available"

\* a check that holds a bed for the caller when it finds one
CheckAvailabilityAndHold(r) ==
    \E h \in Hospitals, t \in CallTypes :
        /\ FreeRequest(r)
        /\ req' = [req EXCEPT ![r] =
              Answered(checkAvailability(HospitalProfile, hospitals, h, t))]
        /\ hospitals' =
              IF checkAvailability(HospitalProfile, hospitals, h, t) = "available"
              THEN [hospitals EXCEPT ![h].availableBeds = @ - 1]
              ELSE hospitals
        /\ UNCHANGED <<seeded, hcall, calc>>
        /\ UNCHANGED <<emergencies, clock, ambulanceUnits, timers, sub>>

\* GET /:id/availability: checkAvailability and the answer
CheckAvailability(r) ==
    \E h \in Hospitals, t \in CallTypes :
        /\ FreeRequest(r)
        /\ req' = [req EXCEPT ![r] =
              Answered(checkAvailability(HospitalProfile, hospitals, h, t))]
        /\ UNCHANGED <<emergencies, clock, ambulanceUnits, timers, sub>>
        /\ UNCHANGED hvars

\* the slot of the first hospital-service call
FirstCall == CHOOSE k \in Calls : \A j \in Calls : k <= j

\* every operation that reads or writes a hospital: one call of the hospital
\* service, one submission up to its answer, its cancellation, and availability
\* checks
NextFrame ==
    \/ ReserveBedLoad(FirstCall)
    \/ UpdateCapacityLoad(FirstCall)
    \/ HospitalSave(FirstCall)
    \/ SubmitRequest(Tracked)
    \/ SubmitTimelineSaved(Tracked)
    \/ SubmitFound(Tracked)
    \/ SubmitAssigned(Tracked)
    \/ SubmitProcessed(Tracked)
    \/ \E r \in Requests :
          \/ CancelLoadAlone(r)
          \/ RequestSaved(r)
          \/ CheckAvailability(r)

SpecFrame == Init /\ [][NextFrame]_vars

\* A store with many hospitals: clinics with no special service or equipment every
\* 100 m from 1 km on, and beyond them, at 10 km, one centre with every service
ManyProfiles(clinics) ==
    [h \in 1 .. clinics + 1 |->
        IF h <= clinics
        THEN [ScoreProfile("None", "none", {"Cardiology"}, FALSE, FALSE, 0, 0, FALSE)
                 EXCEPT !.position = 1000 + 100 * (h - 1)]
        ELSE [ScoreProfile("Level I", "heartAttackCenter", {"Cardiology", "Neurology"},
                           TRUE, TRUE, 1, 1, TRUE)
                 EXCEPT !.position = 10000]]

\* the rest of the program at rest
InitAtRest ==
    /\ hospitals = [h \in Hospitals |->
                      CHOOSE c \in SeedCapacity : c.availableBeds = c.totalBeds]
    /\ seeded = hospitals
    /\ hcall = [k \in Calls |-> IdleCall]
    /\ emergencies = [e \in EmergencyIds |-> NotStored]
    /\ clock = [e \in EmergencyIds |-> 0]
    /\ ambulanceUnits = InitialUnits
    /\ timers = {}
    /\ sub = [e \in EmergencyIds |-> IdleSubmit]
    /\ req = [r \in Requests |-> IdleRequest]

\* the store and the arguments of a call of hospitalService.findNearbyHospitals:
\* one clinic fewer than the limit of the query, as many, or one more, every
\* hospital with every bed free
InitMany ==
    /\ InitAtRest
    /\ \E clinics \in {QueryLimit - 1, QueryLimit, QueryLimit + 1},
          location \in {0, 500, 2000, 4000},
          type \in EmergencyTypes, severity \in RankSeverities :
            calc = [NoCalc EXCEPT
                      !.profiles = ManyProfiles(clinics),
                      !.capacity =
                          [h \in 1 .. clinics + 1 |->
                              CHOOSE c \in SeedCapacity :
                                  c.availableBeds = c.totalBeds],
                      !.location = location, !.type = type, !.severity = severity,
                      !.maxDistance = DefaultMaxDistance]

\* the call of hospitalService.findNearbyHospitals against that store
FindAmongMany ==
    /\ calc.op = "none"
    /\ \E list \in findNearbyHospitals(calc.profiles, calc.capacity, calc.location,
                                       calc.type, calc.severity, calc.maxDistance) :
          calc' = [calc EXCEPT !.op = "findNearbyHospitals", !.list = list]
    /\ UNCHANGED <<hospitals, seeded, hcall, emergencies, clock, ambulanceUnits,
                   timers, sub, req>>

NextMany == FindAmongMany

SpecMany == InitMany /\ [][NextMany]_vars

\* the arguments of a call of hospital.calculateEmergencyScore(type, severity)
InitEmergencyScore ==
    /\ InitAtRest
    /\ \E trauma \in {"None", "Level I", "Level II", "Level III"},
          centre \in {"none", "heartAttackCenter", "strokeCenter", "burnCenter",
                      "poisonControl"},
          specialties \in {{"Cardiology"}, {"Cardiology", "Neurology"},
                           {"Cardiology", "Maternity"}},
          ct \in BOOLEAN, mri \in BOOLEAN,
          vent \in 0 .. 1, c \in ScoreCapacities, type \in EmergencyTypes,
          severity \in {"critical", "moderate"} :
            calc = [NoCalc EXCEPT
                      !.hospital = ScoreProfile(trauma, centre, specialties, ct, mri,
                                                vent, 0, FALSE),
                      !.capacity = c, !.type = type, !.severity = severity]

\* the call of hospital.calculateEmergencyScore
CalculateEmergencyScore ==
    /\ calc.op = "none"
    /\ calc' = [calc EXCEPT
                  !.op = "calculateEmergencyScore",
                  !.result = calculateEmergencyScore(calc.hospital, calc.capacity,
                                                     calc.type, calc.severity)]
    /\ UNCHANGED <<hospitals, seeded, hcall, emergencies, clock, ambulanceUnits,
                   timers, sub, req>>

NextEmergencyScore == CalculateEmergencyScore

SpecEmergencyScore == InitEmergencyScore /\ [][NextEmergencyScore]_vars

\* the argument of a call of hospitalService.calculateCapacityScore(hospital)
InitCapacityScore ==
    /\ InitAtRest
    /\ \E ct \in BOOLEAN, mri \in BOOLEAN, vent \in 0 .. 1, defib \in 0 .. 1,
          blood \in BOOLEAN, c \in ScoreCapacities :
            calc = [NoCalc EXCEPT
                      !.hospital = ScoreProfile("None", "none", {"Cardiology"}, ct, mri,
                                                vent, defib, blood),
                      !.capacity = c]

\* the call of hospitalService.calculateCapacityScore; the result is kept as the
\* score times totalBeds
CalculateCapacityScore ==
    /\ calc.op = "none"
    /\ calc' = [calc EXCEPT
                  !.op = "calculateCapacityScore",
                  !.result = CapacityScoreTimesBeds(calc.hospital, calc.capacity)]
    /\ UNCHANGED <<hospitals, seeded, hcall, emergencies, clock, ambulanceUnits,
                   timers, sub, req>>

NextCapacityScore == CalculateCapacityScore

SpecCapacityScore == InitCapacityScore /\ [][NextCapacityScore]_vars

\* PATCH /status run from findOne to its answer with nothing else in flight, asking
\* for the status that follows the stored one
DriveStatus ==
    \E by \in Actors :
        LET e == Tracked
            stored == emergencies[e]
        IN /\ sub[e].pc = "done"
           /\ \A r \in Requests : req[r].pc = "idle"
           /\ stored.status \notin TerminalStatuses
           /\ emergencies' = [emergencies EXCEPT ![e] =
                 SaveEmergency(stored, updateStatus(CopyOf(stored), Successor(stored.status),
                                                    by, "", clock[e] + 1))]
           /\ clock' = [clock EXCEPT ![e] = @ + 1]
           /\ UNCHANGED <<ambulanceUnits, timers, sub, req>>
           /\ UNCHANGED hvars

\* one emergency submitted and then driven through the chain one request at a time
NextDrive ==
    \/ SubmitStep(Tracked)
    \/ UnitEnRouteTimer
    \/ DriveStatus

SpecDrive == Init /\ [][NextDrive]_vars

\* the ambulance service under its callers: one submit, the unit timer, and calls
\* of updateAmbulanceStatus, reserveAmbulance and releaseAmbulance
NextPool ==
    \/ SubmitStep(Tracked)
    \/ UnitEnRouteTimer
    \/ \E r \in Requests : PatchAmbulanceStatus(r)
    \/ \E r \in Requests : ReserveAmbulance(r)
    \/ \E r \in Requests : ReleaseAmbulance(r)

SpecPool == Init /\ [][NextPool]_vars

\* distances in metres, every EtaStep metres; the severities the switch of
\* calculateETA names and one it does not
EtaStep == 250
Severities == {"critical", "urgent", "moderate", "low"}

\* a call of ambulanceService.calculateETA
CalculateETA ==
    \E distance \in {EtaStep * k : k \in 0 .. MaxEtaSteps}, severity \in Severities :
        /\ calc' = [NoCalc EXCEPT !.op = "calculateETA", !.distance = distance,
                                  !.severity = severity,
                                  !.result = calculateETA(distance, severity)]
        /\ UNCHANGED <<hospitals, seeded, hcall, emergencies, clock, ambulanceUnits,
                       timers, sub, req>>

NextETA == CalculateETA

SpecETA == Init /\ [][NextETA]_vars

----------------------------------------------------------------------------
(* Claims about the capacity store *)

AllCallsDone == \A k \in Calls : hcall[k].pc = "done"

ReserveSuccesses(h) ==
    Cardinality({k \in Calls : /\ hcall[k].op = "reserveBed"
                               /\ hcall[k].h = h
                               /\ hcall[k].result = "success"})

OnlyReservesOn(h) ==
    \A k \in Calls : hcall[k].op = "reserveBed" /\ hcall[k].h = h

\* C1: N concurrent reserveBed calls on a hospital with K available beds,
\* N > K, end with exactly K successes and N-K "No available beds" failures.
C1_ExactlyKReservationsSucceed ==
    \A h \in Hospitals :
        (AllCallsDone /\ OnlyReservesOn(h) /\ MaxCalls > seeded[h].availableBeds)
            => /\ ReserveSuccesses(h) = seeded[h].availableBeds
               /\ Cardinality({k \in Calls : hcall[k].result = "No available beds"})
                     = MaxCalls - seeded[h].availableBeds

\* C2: every stored hospital has 0 <= availableBeds <= totalBeds and
\* 0 <= availableIcuBeds <= icuBeds, whatever calls have run or are running.
C2_CapacityWithinBounds ==
    \A h \in Hospitals :
        /\ 0 <= hospitals[h].availableBeds
        /\ hospitals[h].availableBeds <= hospitals[h].totalBeds
        /\ 0 <= hospitals[h].availableIcuBeds
        /\ hospitals[h].availableIcuBeds <= hospitals[h].icuBeds

----------------------------------------------------------------------------
(* One reserveBed call *)

WithinBounds(c) ==
    /\ 0 <= c.availableBeds /\ c.availableBeds <= c.totalBeds
    /\ 0 <= c.availableIcuBeds /\ c.availableIcuBeds <= c.icuBeds

\* the save of reserveBed call k lands in this step, on the record the call loaded
ReserveLands(k) ==
    /\ hcall[k].op = "reserveBed"
    /\ hcall[k].pc = "saving"
    /\ hcall'[k].pc = "done"
    /\ hospitals[hcall[k].h] = hcall[k].loaded

C13_FullHospitalRefuses ==
    [][\A k \in Calls :
          (/\ hcall[k].pc = "idle"
           /\ hcall'[k].op = "reserveBed"
           /\ hospitals[hcall'[k].h].availableBeds = 0)
              => /\ hcall'[k].pc = "done"
                 /\ hcall'[k].result = "No available beds"
                 /\ hospitals' = hospitals]_vars

\* a call was refused and the hospital still has no bed and its ICU beds
C13_Witness ==
    \E k \in Calls :
        /\ hcall[k].result = "No available beds"
        /\ hospitals[hcall[k].h].availableBeds = 0
        /\ hospitals[hcall[k].h].availableIcuBeds = seeded[hcall[k].h].availableIcuBeds

----------------------------------------------------------------------------
(* The ambulance pool under concurrent submissions *)

Dispatched(e) == sub[e].dispatch.success

NoUnitReset == \A r \in Requests : req[r].pc = "idle"

----------------------------------------------------------------------------
(* The status of an emergency *)

\* C4: a stored status of completed or cancelled is never changed by any step.
C4_TerminalStatusNeverChanges ==
    [][\A e \in EmergencyIds :
          (emergencies[e].exists /\ emergencies[e].status \in TerminalStatuses)
              => emergencies'[e].status = emergencies[e].status]_vars

\* C5: a step that changes a stored non-terminal status changes it to cancelled or
\* to its immediate successor in the chain.
C5_OnlySuccessorOrCancelled ==
    [][\A e \in EmergencyIds :
          (/\ emergencies[e].exists
           /\ emergencies[e].status \notin TerminalStatuses
           /\ emergencies'[e].status # emergencies[e].status)
              => emergencies'[e].status \in {"cancelled", Successor(emergencies[e].status)}]_vars

\* C6: the step in which a request is answered 400 (the emergency is completed or
\* cancelled already) writes nothing: status, timeline and milestone timestamps of
\* every stored emergency are what they were.
C6_RejectedRequestChangesNothing ==
    [][\A r \in Requests :
          (req[r].pc # "done" /\ req'[r].pc = "done" /\ req'[r].resp = "400")
              => emergencies' = emergencies]_vars

\* a cancel has been refused on a stored terminal emergency
C6_Witness ==
    /\ \E r \in Requests : req[r].pc = "done" /\ req[r].resp = "400"
    /\ emergencies[Tracked].status \in TerminalStatuses
    /\ Len(emergencies[Tracked].timeline) > 0

----------------------------------------------------------------------------
(* Resources held by an emergency *)

\* the units whose currentEmergency is e and that are not available
UnitsHeldFor(e) ==
    {u \in Units : /\ ambulanceUnits[u].currentEmergency.emergencyId = e
                   /\ ambulanceUnits[u].status # "available"}

\* C7: when a cancel finishes with 200, no unit is left held for the cancelled
\* emergency (and every hospital has the beds it had before the submission).
C7_CancelReleasesUnit ==
    [][\A r \in Requests :
          (req[r].pc = "saving" /\ req[r].kind = "cancel" /\ req'[r].pc = "done")
              => /\ \A u \in Units :
                       ambulanceUnits'[u].currentEmergency.emergencyId # req[r].e
                 /\ hospitals' = seeded]_vars

\* nothing is in flight: no handler between two awaits, no timer pending
Settled ==
    /\ \A e \in EmergencyIds : sub[e].pc \in {"idle", "done"}
    /\ \A r \in Requests : req[r].pc # "saving"
    /\ timers = {}

\* C8: once nothing is left to run, no unit is still held for an emergency that is
\* completed or cancelled.
C8_TerminalEmergencyUnitReleased ==
    Settled =>
        \A e \in EmergencyIds :
            (emergencies[e].exists /\ emergencies[e].status \in TerminalStatuses)
                => UnitsHeldFor(e) = {}

\* C9: after submit has answered, a unit it dispatched is recorded on the emergency
\* as its ambulance or is no longer held for it.
C9_DispatchedUnitRecordedOrReleased ==
    \A e \in EmergencyIds :
        (sub[e].pc \in {"timer", "done"} /\ Dispatched(e))
            => \/ emergencies[e].ambulanceId = sub[e].dispatch.ambulanceId
               \/ sub[e].dispatch.ambulanceId \notin UnitsHeldFor(e)

\* the stored emergencies assigned to hospital h
AssignedTo(h) ==
    {e \in EmergencyIds : emergencies[e].exists /\ emergencies[e].assignedHospital = h}

\* C10: every stored assignment to a hospital is matched by one bed taken from its
\* availableBeds.
C10_AssignmentTakesABed ==
    \A h \in Hospitals :
        Cardinality(AssignedTo(h)) = seeded[h].availableBeds - hospitals[h].availableBeds

----------------------------------------------------------------------------
(* The timeline of an emergency *)

IsStatusEntry(entry) == entry.event = "Status changed to"

\* the entries of a timeline that updateStatus wrote, in stored order
StatusEntries(timeline) == SelectSeq(timeline, IsStatusEntry)

\* C11: once every handler and timer has finished, the stored status of an
\* emergency is the target named by the last status entry of its timeline.
C11_StatusIsLastTransition ==
    Settled =>
        \A e \in EmergencyIds :
            LET entries == StatusEntries(emergencies[e].timeline)
            IN (emergencies[e].exists /\ Len(entries) > 0)
                   => emergencies[e].status = entries[Len(entries)].arg

StampingStatuses == {"ambulance_dispatched", "arrived_at_scene", "transported",
                     "arrived_at_hospital", "completed"}

\* the save of PATCH request r lands in this step and nothing was written to the
\* emergency since the request loaded it
TransitionLands(r) ==
    /\ req[r].pc = "saving"
    /\ req'[r].pc = "done"
    /\ emergencies[req[r].e].timeline \o req[r].copy.pushed = req[r].copy.doc.timeline

IsPrefix(a, b) == Len(a) <= Len(b) /\ SubSeq(b, 1, Len(a)) = a

\* C16: every step leaves the stored timeline of every emergency as a prefix of
\* its new value: entries are only added at the end.
C16_TimelineAppendOnly ==
    [][\A e \in EmergencyIds :
          IsPrefix(emergencies[e].timeline, emergencies'[e].timeline)]_vars

\* two writers that loaded the emergency separately have both saved: an entry
\* stamped earlier stands after one stamped later
C16_Witness ==
    LET timeline == emergencies[Tracked].timeline
    IN \E i \in DOMAIN timeline, j \in DOMAIN timeline :
           i < j /\ timeline[i].timestamp > timeline[j].timestamp

----------------------------------------------------------------------------
(* An emergency driven through the whole chain *)

Driven == sub[Tracked].pc = "done" /\ emergencies[Tracked].status = "completed"

Targets(entries) == [i \in DOMAIN entries |-> entries[i].arg]

----------------------------------------------------------------------------
(* The ambulance of a submitted emergency *)

RequestsAmbulance(e) ==
    /\ sub[e].pc \in {"finding", "assigning"}
    /\ sub'[e].pc = "processing"

AvailableUnits == {u \in Units : ambulanceUnits[u].status = "available"}

C20_NoUnitAvailable ==
    [][\A e \in EmergencyIds :
          RequestsAmbulance(e) /\ AvailableUnits = {} =>
              /\ ~sub'[e].dispatch.success
              /\ sub'[e].dispatch.ambulanceId = NoUnit
              /\ sub'[e].dispatch.dispatchPhone = DispatchPhone
              /\ ambulanceUnits' = ambulanceUnits
              /\ timers' = timers]_vars

\* a submit that was answered with the fallback phone while no unit was available
C20_Witness ==
    \E e \in EmergencyIds :
        /\ sub[e].pc = "timer"
        /\ sub[e].resp = "200"
        /\ ~sub[e].dispatch.success
        /\ sub[e].dispatch.dispatchPhone = DispatchPhone
        /\ AvailableUnits = {}

----------------------------------------------------------------------------
(* The ambulance service called directly *)

\* a unit with no emergency and no reservation
Unreferenced(unit) ==
    /\ unit.currentEmergency = NoCurrentEmergency
    /\ unit.reservedFor = NoEmergency
    /\ unit.reservationTime = 0

\* C21: releaseAmbulance on an existing unit, whatever its status, leaves it
\* available with no current emergency and no reservation; a second release
\* changes nothing more; every other unit is as it was.
C21_ReleaseMakesAvailable ==
    \A id \in Units :
        LET after == releaseAmbulance(ambulanceUnits, id)
        IN /\ after[id].status = "available"
           /\ Unreferenced(after[id])
           /\ releaseAmbulance(after, id) = after
           /\ \A v \in Units \ {id} : after[v] = ambulanceUnits[v]

\* the unit dispatched by submit has been released, while the other unit is
\* still reserved
C21_Witness ==
    \E u, v \in Units :
        /\ sub[Tracked].dispatch.success /\ sub[Tracked].dispatch.ambulanceId = u
        /\ \E r \in Requests : req[r].resp = "returned"
        /\ ambulanceUnits[u].status = "available" /\ Unreferenced(ambulanceUnits[u])
        /\ ambulanceUnits[v].status = "reserved"
        /\ ambulanceUnits[v].reservedFor # NoEmergency

\* km/h, by severity
SpeedOf(severity) ==
    IF severity = "critical" THEN 80 ELSE IF severity = "urgent" THEN 70 ELSE 60

\* minutes is the least whole number of minutes in which distance metres are
\* covered at speed km/h
IsCeilMinutes(minutes, distance, speed) ==
    /\ minutes * speed * 1000 >= distance * 60
    /\ (minutes - 1) * speed * 1000 < distance * 60

----------------------------------------------------------------------------
(* What POST /submit answers *)

\* the step in which POST /submit for e sends its response
SubmitAnswers(e) ==
    /\ sub[e].pc = "processing"
    /\ sub'[e].pc = "timer"

----------------------------------------------------------------------------
(* Notifications that fail *)

\* the step in which the PATCH request of slot r is answered after its save
RequestAnswers(r) ==
    /\ req[r].pc = "saving"
    /\ req'[r].pc = "done"

----------------------------------------------------------------------------
(* The list findNearbyHospitals returns *)

\* entry a may stand before entry b: higher score, or equal score and nearer, or
\* equal score and distance and a rating at least as high
RanksBefore(a, b) ==
    \/ a.score > b.score
    \/ a.score = b.score /\ a.distance < b.distance
    \/ /\ a.score = b.score
       /\ a.distance = b.distance
       /\ HospitalProfile[a.hospital].rating >= HospitalProfile[b.hospital].rating

HasSearched(e) == sub[e].pc \notin {"idle", "timeline", "finding"}

IsRounded(score, num, den) ==
    /\ 2 * den * score <= 2 * num + den
    /\ 2 * num + den < 2 * den * (score + 1)

\* C29: the score of every entry is round(0.4 * emergencyScore + 0.3 *
\* distanceScore + 0.3 * capacityScore), with distanceScore 0 from maxDistance on
\* and 100 * (1 - distance / maxDistance) below it; it is a whole number from 0 to
\* 100; 2,000 m of 50,000 m give the distanceScore 96.
C29_RankScore ==
    calc.op = "findNearbyHospitals" =>
        \A i \in DOMAIN calc.list :
            LET x == calc.list[i]
                p == calc.profiles[x.hospital]
                c == hospitals[x.hospital]
                maxDistance == calc.maxDistance
                distanceScoreTimesMax ==
                    IF x.distance >= maxDistance THEN 0
                    ELSE 100 * (maxDistance - x.distance)
                den == 10 * maxDistance * c.totalBeds
                num == 4 * calculateEmergencyScore(p, c, calc.type, calc.severity)
                         * maxDistance * c.totalBeds
                     + 3 * distanceScoreTimesMax * c.totalBeds
                     + 3 * CapacityScoreTimesBeds(p, c) * maxDistance
            IN /\ x.score \in 0 .. 100
               /\ IsRounded(x.score, num, den)
               /\ x.distance = 2000 /\ maxDistance = 50000 =>
                     distanceScoreTimesMax = 96 * maxDistance

\* a cardiac, critical emergency 2,000 m from h1 with every bed free:
\* 0.4 * 100 + 0.3 * 96 + 0.3 * 100 = 98.8, score 99
C29_Witness ==
    /\ calc.op = "findNearbyHospitals"
    /\ calc.type = "cardiac" /\ calc.severity = "critical"
    /\ calc.location = 0 /\ calc.maxDistance = DefaultMaxDistance
    /\ hospitals["h1"].availableBeds = hospitals["h1"].totalBeds
    /\ \E i \in DOMAIN calc.list :
          /\ calc.list[i].hospital = "h1"
          /\ calc.list[i].distance = 2000
          /\ calc.list[i].score = 99

----------------------------------------------------------------------------
(* Calls that name an unknown unit *)

\* the call of slot r returns or throws in this step
CallEnds(r) ==
    /\ req[r].pc = "idle"
    /\ req'[r].pc = "done"

\* C30, for the ambulance service: a call that names an id of no unit
\* (reserveAmbulance, releaseAmbulance) reports that the ambulance was not found
\* and changes nothing.
C30_UnknownUnitReportsNotFound ==
    [][\A r \in Requests :
          CallEnds(r) /\ req'[r].unit \notin Units \cup {NoUnit} =>
              /\ req'[r].resp = "Ambulance not found"
              /\ ambulanceUnits' = ambulanceUnits
              /\ timers' = timers]_vars

----------------------------------------------------------------------------
(* Geocoding providers *)

\* C31: with a Google key and no success from Google, Nominatim is asked next and
\* its result is returned; without a key only Nominatim is asked; when every
\* provider asked fails, the answer is a failure.
C31_NominatimFallback ==
    calc.op \in {"reverseGeocode", "forwardGeocode", "findNearbyPlaces"} =>
        /\ calc.key /\ calc.google # "found" =>
              /\ calc.answer.consulted = <<"google", "nominatim">>
              /\ calc.answer.provider = "nominatim"
              /\ calc.answer.success = (calc.nominatim = "found")
        /\ ~calc.key =>
              /\ calc.answer.consulted = <<"nominatim">>
              /\ calc.answer.success = (calc.nominatim = "found")
        /\ (calc.key => calc.google # "found") /\ calc.nominatim # "found" =>
              ~calc.answer.success

----------------------------------------------------------------------------
(* The ambulance pool's references *)

\* C32: in every state of the pool each unit holds at most one emergency
\* reference (its currentEmergency or its reservedFor), and a unit whose status
\* is available holds none.
C32_AtMostOneReference ==
    \A u \in Units :
        LET unit == ambulanceUnits[u]
            references ==
                (IF unit.currentEmergency.emergencyId # NoEmergency THEN 1 ELSE 0)
                + (IF unit.reservedFor # NoEmergency THEN 1 ELSE 0)
        IN /\ references <= 1
           /\ unit.status = "available" => references = 0

----------------------------------------------------------------------------
(* The two hospital scores *)

\* C33: calculateEmergencyScore is min(100, 30 for a free bed + 20 for a free
\* emergency room + 25 when the hospital handles the type + 15 (Level I) or 10
\* (Level II) and 10 for a free ICU bed when the severity is critical + 5 each
\* for CT, MRI and ventilators), with the type matched by the stated mapping; the
\* result lies in 0 .. 100.
C33_EmergencyScore ==
    calc.op = "calculateEmergencyScore" =>
        LET p == calc.hospital
            c == calc.capacity
            handled ==
                {"other"}
                \cup (IF p.heartAttackCenter THEN {"cardiac"} ELSE {})
                \cup (IF p.strokeCenter THEN {"stroke"} ELSE {})
                \cup (IF p.traumaLevel # "None" THEN {"trauma"} ELSE {})
                \cup (IF p.burnCenter THEN {"burns"} ELSE {})
                \cup (IF p.poisonControl THEN {"poisoning"} ELSE {})
                \cup (IF "Neurology" \in p.specialties THEN {"neurological"} ELSE {})
                \cup (IF p.ventilators > 0 THEN {"respiratory"} ELSE {})
                \cup (IF "Maternity" \in p.specialties THEN {"childbirth"} ELSE {})
            critical == calc.severity = "critical"
            weight == [beds |-> 30, rooms |-> 20, type |-> 25, level1 |-> 15,
                       level2 |-> 10, icu |-> 10, ct |-> 5, mri |-> 5, vent |-> 5]
            earned == {i \in DOMAIN weight :
                        \/ i = "beds" /\ c.availableBeds > 0
                        \/ i = "rooms" /\ c.availableEmergencyRooms > 0
                        \/ i = "type" /\ calc.type \in handled
                        \/ i = "level1" /\ critical /\ p.traumaLevel = "Level I"
                        \/ i = "level2" /\ critical /\ p.traumaLevel = "Level II"
                        \/ i = "icu" /\ critical /\ c.availableIcuBeds > 0
                        \/ i = "ct" /\ p.ctScan
                        \/ i = "mri" /\ p.mriMachine
                        \/ i = "vent" /\ p.ventilators > 0}
            worth(w) == w * Cardinality({i \in earned : weight[i] = w})
            total == worth(30) + worth(25) + worth(20) + worth(15) + worth(10)
                     + worth(5)
        IN /\ calc.result = (IF total > 100 THEN 100 ELSE total)
           /\ calc.result \in 0 .. 100

\* a critical emergency at a Level I hospital with everything free: the points
\* add up to more than 100 and the score is 100
C33_Witness ==
    /\ calc.op = "calculateEmergencyScore"
    /\ calc.severity = "critical"
    /\ calc.hospital.traumaLevel = "Level I"
    /\ calc.type = "trauma"
    /\ calc.capacity.availableBeds > 0
    /\ calc.capacity.availableEmergencyRooms > 0
    /\ calc.capacity.availableIcuBeds > 0
    /\ calc.hospital.ctScan /\ calc.hospital.mriMachine
    /\ calc.hospital.ventilators > 0
    /\ calc.result = 100

\* C34 as stated: calculateCapacityScore is min(100, 30 * availableBeds /
\* totalBeds + 25 for a free emergency room + 20 for a free ICU bed + equipment
\* points), the equipment points being 5 each for CT, MRI, ventilators,
\* defibrillators and blood bank but never more than 20 in total.
C34_EquipmentAtMost20 ==
    calc.op = "calculateCapacityScore" =>
        LET p == calc.hospital
            c == calc.capacity
            items == Cardinality({i \in {"ct", "mri", "vent", "defib", "blood"} :
                        \/ i = "ct" /\ p.ctScan
                        \/ i = "mri" /\ p.mriMachine
                        \/ i = "vent" /\ p.ventilators > 0
                        \/ i = "defib" /\ p.defibrillators > 0
                        \/ i = "blood" /\ p.bloodBank})
            equipment == IF 5 * items > 20 THEN 20 ELSE 5 * items
            sumTimesBeds ==
                30 * c.availableBeds
                + (IF c.availableEmergencyRooms > 0 THEN 25 * c.totalBeds ELSE 0)
                + (IF c.availableIcuBeds > 0 THEN 20 * c.totalBeds ELSE 0)
                + equipment * c.totalBeds
        IN calc.result = (IF sumTimesBeds > 100 * c.totalBeds
                          THEN 100 * c.totalBeds ELSE sumTimesBeds)

\* C34 amended: the same sum with equipment points of 5 for each of the five
\* items, up to 25 in total.
C34_CapacityScore ==
    calc.op = "calculateCapacityScore" =>
        LET p == calc.hospital
            c == calc.capacity
            items == Cardinality({i \in {"ct", "mri", "vent", "defib", "blood"} :
                        \/ i = "ct" /\ p.ctScan
                        \/ i = "mri" /\ p.mriMachine
                        \/ i = "vent" /\ p.ventilators > 0
                        \/ i = "defib" /\ p.defibrillators > 0
                        \/ i = "blood" /\ p.bloodBank})
            sumTimesBeds ==
                30 * c.availableBeds
                + (IF c.availableEmergencyRooms > 0 THEN 25 * c.totalBeds ELSE 0)
                + (IF c.availableIcuBeds > 0 THEN 20 * c.totalBeds ELSE 0)
                + 5 * items * c.totalBeds
        IN calc.result = (IF sumTimesBeds > 100 * c.totalBeds
                          THEN 100 * c.totalBeds ELSE sumTimesBeds)

\* a hospital with all five items, no free ICU bed and half its beds free: the
\* equipment counts for 25
C34_Witness ==
    /\ calc.op = "calculateCapacityScore"
    /\ calc.hospital.ctScan /\ calc.hospital.mriMachine /\ calc.hospital.bloodBank
    /\ calc.hospital.ventilators > 0 /\ calc.hospital.defibrillators > 0
    /\ calc.capacity.availableIcuBeds = 0
    /\ calc.capacity.availableEmergencyRooms > 0
    /\ calc.capacity.availableBeds = 1
    /\ calc.result = 30 + 50 * calc.capacity.totalBeds

----------------------------------------------------------------------------
(* Who writes the available counters *)

\* C35 as stated: availableBeds, availableIcuBeds and availableEmergencyRooms
\* change only through reserve and release; no other operation
\* (updateHospitalCapacity, findCandidates, submit, cancel, checkAvailability)
\* changes them.
C35_OnlyReserveAndRelease ==
    [][\A h \in Hospitals :
          (\E f \in {"availableBeds", "availableIcuBeds", "availableEmergencyRooms"} :
              hospitals'[h][f] # hospitals[h][f])
          => \E k \in Calls :
                /\ hcall[k].pc = "saving" /\ hcall'[k].pc = "done"
                /\ hcall[k].h = h
                /\ hcall[k].op = "reserveBed"]_vars

\* C35 amended: the three counters change only through reserve, release and
\* updateHospitalCapacity; findCandidates, submit, cancel and checkAvailability
\* leave them as they are.
C35_OnlyCapacityService ==
    [][\A h \in Hospitals :
          (\E f \in {"availableBeds", "availableIcuBeds", "availableEmergencyRooms"} :
              hospitals'[h][f] # hospitals[h][f])
          => \E k \in Calls :
                /\ hcall[k].pc = "saving" /\ hcall'[k].pc = "done"
                /\ hcall[k].h = h
                /\ hcall[k].op \in {"reserveBed", "updateCapacity"}]_vars

\* an emergency was submitted and cancelled, availability was checked, and an
\* updateHospitalCapacity call has changed a counter
C35_Witness ==
    /\ emergencies[Tracked].exists
    /\ emergencies[Tracked].status = "cancelled"
    /\ \E r \in Requests : req[r].resp \in {"available", "No available beds"}
    /\ \E k \in Calls :
          /\ hcall[k].pc = "done"
          /\ hcall[k].op = "updateCapacity"
          /\ hcall[k].result = "success"
          /\ hospitals[hcall[k].h].availableBeds # seeded[hcall[k].h].availableBeds

----------------------------------------------------------------------------
(* The ambulance units' statuses *)

\* C36: in every state every unit's status is one of available, reserved,
\* dispatched, en_route, at_scene, returning.
C36_UnitStatusInEnum ==
    \A u \in Units :
        ambulanceUnits[u].status \in
            {"available", "reserved", "dispatched", "en_route", "at_scene", "returning"}

----------------------------------------------------------------------------
(* The delayed updates *)

C38_EnRouteOnlyIfStillDispatched ==
    [][\A t \in timers :
          (/\ t \notin timers'
           /\ ~(/\ ambulanceUnits[t.unit].status = "dispatched"
                /\ ambulanceUnits[t.unit].currentEmergency.emergencyId = t.emergencyId))
          => ambulanceUnits'[t.unit].status = ambulanceUnits[t.unit].status]_vars

----------------------------------------------------------------------------
(* The limit of the hospital query *)

\* C39: the first entry findNearbyHospitals returns has the greatest rank score
\* among all Active hospitals with a free bed within maxDistance, also when there
\* are more than 20 of them.
C39_FirstEntryHasGreatestScore ==
    calc.op = "findNearbyHospitals" =>
        \A h \in DOMAIN calc.profiles :
            MatchesQuery(calc.profiles, calc.capacity, h, calc.location,
                         calc.maxDistance)
            => /\ calc.list # <<>>
               /\ calc.list[1].score >=
                     Scored(calc.profiles, calc.capacity, h, calc.location, calc.type,
                            calc.severity, calc.maxDistance).score

====
